---- MODULE Spec2Model ----
(***************************************************************************)
(* The job queue of the VeoBatch component (src/App.tsx) and its contract  *)
(* with the video-generation client (src/services/geminiService.ts).       *)
(*                                                                         *)
(* State is the component's React state (jobs, apiKeyReady, isProcessing), *)
(* the processingRef ref, the effects React still has to run, and the      *)
(* processQueue invocations that are alive, each with the values its       *)
(* closure captured (the jobs and apiKeyReady of the render whose effect   *)
(* created it) and its position in the function body.                      *)
(*                                                                         *)
(* retried is a history variable: the ids the user has retried and that no  *)
(* processQueue invocation has picked since.                               *)
(*                                                                         *)
(* Optional fields (videoUrl?, completedAt?, error?) are sequences of      *)
(* length 0 (undefined) or 1.  Strings that the code inspects are          *)
(* sequences: a prompt line is a sequence of characters, an error message  *)
(* a sequence of fragments, so that trim() and includes() are computed.    *)
(***************************************************************************)
EXTENDS Integers, Sequences, FiniteSets, TLC

VARIABLES jobs, apiKeyReady, isProcessing, processingRef,
          calls, effectPending, initCheckPending, now, nextId, retried

vars == <<jobs, apiKeyReady, isProcessing, processingRef,
          calls, effectPending, initCheckPending, now, nextId, retried>>

(* ------------------------------ bounds -------------------------------- *)

\* Number of job ids crypto.randomUUID() hands out in a run.
MaxJobs == 2
\* Largest value Date.now() reaches in a run.
MaxTime == 1
\* Lines of the textarea at one click on "Add to Queue".
MaxLines == 1
\* Nested synchronous processQueue frames the engine's stack holds.
MaxStack == 2
\* Lines of a pasted batch, where the batch itself is examined.
MaxBatchLines == 3

(* --------------------------- src/types.ts ----------------------------- *)

PENDING == "PENDING"
PROCESSING == "PROCESSING"
COMPLETED == "COMPLETED"
FAILED == "FAILED"

JobStatus == {PENDING, PROCESSING, COMPLETED, FAILED}

undefined == <<>>
Def(x) == <<x>>

\* A freshly created job, as handleAddJobs builds it.
VideoJob(id, prompt, t) ==
  [id |-> id, prompt |-> prompt, status |-> PENDING,
   videoUrl |-> undefined, videoBlob |-> undefined,
   createdAt |-> t, completedAt |-> undefined, error |-> undefined]

(* ------------------------ strings and messages ------------------------ *)

SP == " "
IsSpace(c) == c = SP

RECURSIVE trimStart(_)
trimStart(s) ==
  IF s = <<>> THEN <<>>
  ELSE IF IsSpace(Head(s)) THEN trimStart(Tail(s)) ELSE s

RECURSIVE trimEnd(_)
trimEnd(s) ==
  IF s = <<>> THEN <<>>
  ELSE IF IsSpace(s[Len(s)]) THEN trimEnd(SubSeq(s, 1, Len(s) - 1)) ELSE s

\* String.prototype.trim on one line of text.
trim(s) == trimEnd(trimStart(s))

\* message.includes(fragment), on a message held as a sequence of fragments.
includes(msg, fragment) == \E i \in DOMAIN msg : msg[i] = fragment

NotFoundMarker == "Requested entity was not found"
KeyNotConnected == <<"API Key not connected">>
GenerationFailed == <<"Generation failed">>
SessionExpired == <<"API Key session expired or invalid. Please re-select your key.">>
NoUriReturned == <<"Video generation completed but no URI was returned.">>
DownloadFailed(statusText) == <<"Failed to download video: ", statusText>>

(* ------------------- src/services/geminiService.ts -------------------- *)

\* What the host page (window.aistudio) does when asked: whether the overlay
\* exists, whether a key is selected, whether its calls reject.
AiStudio == [present : BOOLEAN, hasKey : BOOLEAN,
             selectFails : BOOLEAN, checkFails : BOOLEAN]

\* [threw, value] of the promise checkApiKeyAvailability returns.
checkApiKeyAvailability(env) ==
  IF env.present
  THEN [threw |-> env.checkFails, value |-> env.hasKey]
  ELSE [threw |-> FALSE, value |-> FALSE]

\* promptApiKeySelection that returns quietly when the overlay is missing.
promptApiKeySelectionQuiet(env) == env.present /\ env.selectFails

\* Whether promptApiKeySelection throws.
promptApiKeySelectionThrows(env) ==
  IF env.present THEN env.selectFails ELSE TRUE

\* Messages of the errors the SDK calls (generateVideos, getVideosOperation)
\* reject with: an empty one, the session-invalid one.
SdkMessages == { <<>>, <<NotFoundMarker>> }

\* What the remote service does with one generation request.
RemoteBehaviours ==
  { [kind |-> "video", text |-> <<>>],
    [kind |-> "noUri", text |-> <<>>] }
  \cup { [kind |-> "sdkError", text |-> m] : m \in SdkMessages }

\* The message of the error raised inside the try block of generateVideoWithVeo.
thrownInside(remote) ==
  CASE remote.kind = "sdkError" -> remote.text
    [] remote.kind = "noUri" -> NoUriReturned
    [] remote.kind = "httpError" -> DownloadFailed(remote.text[1])
    [] OTHER -> <<>>

\* generateVideoWithVeo: resolves with a video (object URL and blob), or rejects
\* with the message its catch block lets through.
generateVideoWithVeo(prompt, remote) ==
  IF remote.kind = "video"
  THEN [ok |-> TRUE, videoUrl |-> "blob:url", videoBlob |-> "blob", message |-> <<>>]
  ELSE LET message == thrownInside(remote)
       IN [ok |-> FALSE, videoUrl |-> "", videoBlob |-> "",
           message |-> IF message # <<>> /\ includes(message, NotFoundMarker)
                       THEN SessionExpired
                       ELSE message]

(* ----------------------------- src/App.tsx ---------------------------- *)

\* jobs.findIndex(j => j.status === PENDING); 0 stands for -1.
nextJobIndex(js) ==
  IF \E i \in DOMAIN js : js[i].status = PENDING
  THEN CHOOSE i \in DOMAIN js :
         /\ js[i].status = PENDING
         /\ \A k \in 1..(i - 1) : js[k].status # PENDING
  ELSE 0

\* The PROCESSING patch selecting by status instead of by id.
markProcessingByStatus(js, id) ==
  [i \in DOMAIN js |->
     IF js[i].status = PENDING THEN [js[i] EXCEPT !.status = PROCESSING] ELSE js[i]]

\* prev.map(j => j.id === id ? {...j, status: PROCESSING} : j)
markProcessing(js, id) ==
  [i \in DOMAIN js |->
     IF js[i].id = id THEN [js[i] EXCEPT !.status = PROCESSING] ELSE js[i]]

\* The COMPLETED patch written as an upsert: a job that is no longer in the
\* store is put back.
markCompletedUpsert(js, id, result, t) ==
  IF \E i \in DOMAIN js : js[i].id = id
  THEN [i \in DOMAIN js |->
          IF js[i].id = id
          THEN [js[i] EXCEPT !.status = COMPLETED,
                             !.videoUrl = Def(result.videoUrl),
                             !.videoBlob = Def(result.videoBlob),
                             !.completedAt = Def(t)]
          ELSE js[i]]
  ELSE Append(js, [VideoJob(id, <<>>, t) EXCEPT !.status = COMPLETED,
                                               !.videoUrl = Def(result.videoUrl),
                                               !.videoBlob = Def(result.videoBlob),
                                               !.completedAt = Def(t)])

\* prev.map(j => j.id === id ? {...j, status: COMPLETED, videoUrl, videoBlob, completedAt} : j)
markCompleted(js, id, result, t) ==
  [i \in DOMAIN js |->
     IF js[i].id = id
     THEN [js[i] EXCEPT !.status = COMPLETED,
                        !.videoUrl = Def(result.videoUrl),
                        !.videoBlob = Def(result.videoBlob),
                        !.completedAt = Def(t)]
     ELSE js[i]]

\* The FAILED patch storing the fallback text whatever the message is.
markFailedGeneric(js, id, message) ==
  [i \in DOMAIN js |->
     IF js[i].id = id
     THEN [js[i] EXCEPT !.status = FAILED, !.error = Def(GenerationFailed)]
     ELSE js[i]]

\* prev.map(j => j.id === id ? {...j, status: FAILED, error: message || "Generation failed"} : j)
markFailed(js, id, message) ==
  [i \in DOMAIN js |->
     IF js[i].id = id
     THEN [js[i] EXCEPT !.status = FAILED,
                        !.error = Def(IF message # <<>> THEN message
                                      ELSE GenerationFailed)]
     ELSE js[i]]

\* The catch block's readiness reset: false when the message has the marker.
readyAfterError(ready, message) ==
  IF message # <<>> /\ includes(message, NotFoundMarker) THEN FALSE ELSE ready

\* The job a processQueue invocation works on: jobs[nextJobIndex] of the jobs
\* its closure captured.
jobOf(c) == c.jobs[nextJobIndex(c.jobs)]

\* The jobs a closure holds, with the fields processQueue reads of them.
captured(js) ==
  [i \in DOMAIN js |->
     [id |-> js[i].id, prompt |-> js[i].prompt, status |-> js[i].status]]

\* processQueue with its first line, the busy guard, left out.
processQueueUnguarded(capJobs, capReady, ref, js, depth) ==
  IF nextJobIndex(capJobs) = 0
  THEN [jobs |-> js, setJobs |-> FALSE, isProcessing |-> FALSE,
        processingRef |-> ref, started |-> <<>>]
  ELSE [jobs |-> markProcessing(js, capJobs[nextJobIndex(capJobs)].id),
        setJobs |-> TRUE, isProcessing |-> TRUE, processingRef |-> TRUE,
        started |-> << [jobs |-> captured(capJobs), apiKeyReady |-> capReady,
                        pc |-> IF capReady THEN "await" ELSE "catch",
                        depth |-> depth] >>]

\* processQueue whose busy guard releases the flag before it returns.
processQueueReleasing(capJobs, capReady, ref, js, depth) ==
  IF ref
  THEN [jobs |-> js, setJobs |-> FALSE, isProcessing |-> isProcessing,
        processingRef |-> FALSE, started |-> <<>>]
  ELSE processQueueUnguarded(capJobs, capReady, ref, js, depth)

\* processQueue from its first line to the try block, for a closure that
\* captured capJobs and capReady, entered with processingRef.current = ref and
\* the store holding js.  started is the invocation left alive, if any: at the
\* await when capReady, else with "API Key not connected" thrown and not yet caught.
processQueue(capJobs, capReady, ref, js, depth) ==
  IF ref
  THEN [jobs |-> js, setJobs |-> FALSE, isProcessing |-> isProcessing,
        processingRef |-> ref, started |-> <<>>]
  ELSE IF nextJobIndex(capJobs) = 0
  THEN [jobs |-> js, setJobs |-> FALSE, isProcessing |-> FALSE,
        processingRef |-> ref, started |-> <<>>]
  ELSE [jobs |-> markProcessing(js, capJobs[nextJobIndex(capJobs)].id),
        setJobs |-> TRUE, isProcessing |-> TRUE, processingRef |-> TRUE,
        started |-> << [jobs |-> captured(capJobs), apiKeyReady |-> capReady,
                        pc |-> IF capReady THEN "await" ELSE "catch",
                        depth |-> depth] >>]

\* The ids of the jobs a run of processQueue has picked (none or one).
picked(r) == { jobOf(r.started[i]).id : i \in DOMAIN r.started }

RemoveAt(s, i) == SubSeq(s, 1, i - 1) \o SubSeq(s, i + 1, Len(s))

\* JavaScript runs each callback to completion: nothing else runs while an
\* invocation is between two awaits.
Quiescent == \A i \in DOMAIN calls : calls[i].pc = "await"

\* The main panel (textarea, queue, job cards) is rendered only when
\* apiKeyReady; the connect buttons only when it is not.
mainPanelShown == apiKeyReady

Lines == { <<>>, <<SP>>, <<"a">>, <<SP, "b", SP>> }

\* inputPrompt.split('\n'): the textarea's content as its lines.
Texts == UNION { [1..n -> Lines] : n \in 1..MaxLines }

\* !inputPrompt.trim(): only whitespace and line breaks.
isBlank(text) == \A i \in DOMAIN text : \A k \in DOMAIN text[i] : IsSpace(text[i][k])

\* handleAddJobs keeping each line as typed: prompt: line.
newJobsUntrimmed(text, firstId, t) ==
  LET lines == SelectSeq(text, LAMBDA line : Len(trim(line)) > 0)
  IN [i \in 1..Len(lines) |-> VideoJob(firstId + i - 1, lines[i], t)]

\* lines.map(line => ({id: crypto.randomUUID(), prompt: line.trim(), ...}))
newJobs(text, firstId, t) ==
  LET lines == SelectSeq(text, LAMBDA line : Len(trim(line)) > 0)
  IN [i \in 1..Len(lines) |-> VideoJob(firstId + i - 1, trim(lines[i]), t)]

Init ==
  /\ jobs = <<>>
  /\ apiKeyReady = FALSE
  /\ isProcessing = FALSE
  /\ processingRef = FALSE
  /\ calls = <<>>
  /\ effectPending = TRUE
  /\ initCheckPending = TRUE
  /\ now = 0
  /\ nextId = 1
  /\ retried = {}

\* Date.now() moves on.
Tick ==
  /\ Quiescent
  /\ now < MaxTime
  /\ now' = now + 1
  /\ UNCHANGED <<jobs, apiKeyReady, isProcessing, processingRef, calls,
                 effectPending, initCheckPending, nextId, retried>>

\* The mount effect's initCheck settles, whenever the host answers.
initCheck(env) ==
  /\ Quiescent
  /\ initCheckPending
  /\ initCheckPending' = FALSE
  /\ LET r == checkApiKeyAvailability(env)
     IN IF r.threw
        THEN UNCHANGED <<apiKeyReady, effectPending>>
        ELSE /\ apiKeyReady' = r.value
             /\ effectPending' = (effectPending \/ r.value # apiKeyReady)
  /\ UNCHANGED <<jobs, isProcessing, processingRef, calls, now, nextId, retried>>

handleConnect(env) ==
  /\ Quiescent
  /\ ~mainPanelShown
  /\ IF promptApiKeySelectionThrows(env) \/ checkApiKeyAvailability(env).threw
     THEN UNCHANGED <<apiKeyReady, effectPending>>
     ELSE /\ apiKeyReady' = TRUE
          /\ effectPending' = TRUE
  /\ UNCHANGED <<jobs, isProcessing, processingRef, calls,
                 initCheckPending, now, nextId, retried>>

handleAddJobs(text) ==
  /\ Quiescent
  /\ mainPanelShown
  /\ IF isBlank(text)
     THEN UNCHANGED <<jobs, nextId, effectPending>>
     ELSE LET new == newJobs(text, nextId, now)
          IN /\ nextId + Len(new) - 1 <= MaxJobs
             /\ nextId' = nextId + Len(new)
             /\ jobs' = jobs \o new
             /\ effectPending' = TRUE
  /\ UNCHANGED <<apiKeyReady, isProcessing, processingRef, calls,
                 initCheckPending, now, retried>>

\* A job card renders its Retry button for a FAILED job.
retryShown(job) == job.status = FAILED

retryJob(id) ==
  /\ Quiescent
  /\ mainPanelShown
  /\ \E i \in DOMAIN jobs : jobs[i].id = id /\ retryShown(jobs[i])
  /\ jobs' = [i \in DOMAIN jobs |->
                IF jobs[i].id = id
                THEN [jobs[i] EXCEPT !.status = PENDING, !.error = undefined]
                ELSE jobs[i]]
  /\ effectPending' = TRUE
  /\ retried' = retried \cup {id}
  /\ UNCHANGED <<apiKeyReady, isProcessing, processingRef, calls,
                 initCheckPending, now, nextId>>

\* The remove button of a job card.
deleteJob(id) ==
  /\ Quiescent
  /\ mainPanelShown
  /\ \E i \in DOMAIN jobs : jobs[i].id = id
  /\ jobs' = SelectSeq(jobs, LAMBDA j : j.id # id)
  /\ effectPending' = TRUE
  /\ retried' = retried \ {id}
  /\ UNCHANGED <<apiKeyReady, isProcessing, processingRef, calls,
                 initCheckPending, now, nextId>>

\* The Clear All button, rendered when the queue is not empty.
clearAll(confirmed) ==
  /\ Quiescent
  /\ mainPanelShown
  /\ Len(jobs) > 0
  /\ IF confirmed
     THEN jobs' = <<>> /\ effectPending' = TRUE /\ retried' = {}
     ELSE UNCHANGED <<jobs, effectPending, retried>>
  /\ UNCHANGED <<apiKeyReady, isProcessing, processingRef, calls,
                 initCheckPending, now, nextId>>

\* The queue effect of the last render: processQueue() of a new closure over
\* the rendered jobs and apiKeyReady, when some job is PENDING.
queueEffect ==
  /\ Quiescent
  /\ effectPending
  /\ IF \E i \in DOMAIN jobs : jobs[i].status = PENDING
     THEN LET r == processQueue(jobs, apiKeyReady, processingRef, jobs, 1)
          IN /\ jobs' = r.jobs
             /\ isProcessing' = r.isProcessing
             /\ processingRef' = r.processingRef
             /\ calls' = calls \o r.started
             /\ effectPending' = r.setJobs
             /\ retried' = retried \ picked(r)
     ELSE /\ effectPending' = FALSE
          /\ UNCHANGED <<jobs, isProcessing, processingRef, calls, retried>>
  /\ UNCHANGED <<apiKeyReady, initCheckPending, now, nextId>>

\* The awaited generateVideoWithVeo settles: the COMPLETED patch, or the catch
\* block with its FAILED patch.  The finally block is the invocation's next step.
clientSettles(i, remote) ==
  /\ Quiescent
  /\ i \in DOMAIN calls
  /\ LET job == jobOf(calls[i])
         result == generateVideoWithVeo(job.prompt, remote)
     IN IF result.ok
        THEN /\ jobs' = markCompleted(jobs, job.id, result, now)
             /\ UNCHANGED apiKeyReady
        ELSE /\ apiKeyReady' = readyAfterError(apiKeyReady, result.message)
             /\ jobs' = markFailed(jobs, job.id, result.message)
  /\ calls' = [calls EXCEPT ![i].pc = "finally"]
  /\ effectPending' = TRUE
  /\ UNCHANGED <<isProcessing, processingRef, initCheckPending, now, nextId, retried>>

\* "API Key not connected", thrown before the client is called, is caught.
catchNotConnected(i) ==
  /\ i \in DOMAIN calls
  /\ calls[i].pc = "catch"
  /\ apiKeyReady' = readyAfterError(apiKeyReady, KeyNotConnected)
  /\ jobs' = markFailed(jobs, jobOf(calls[i]).id, KeyNotConnected)
  /\ calls' = [calls EXCEPT ![i].pc = "finally"]
  /\ effectPending' = TRUE
  /\ UNCHANGED <<isProcessing, processingRef, initCheckPending, now, nextId, retried>>

\* The finally block: release the flag and call processQueue() again, the same
\* closure.  After an await the call runs on a fresh stack; with nothing
\* awaited it nests one frame deeper.
finallyBlock(i) ==
  /\ i \in DOMAIN calls
  /\ calls[i].pc = "finally"
  /\ calls[i].apiKeyReady \/ calls[i].depth < MaxStack
  /\ LET c == calls[i]
         r == processQueue(c.jobs, c.apiKeyReady, FALSE, jobs,
                           IF c.apiKeyReady THEN 1 ELSE c.depth + 1)
     IN /\ jobs' = r.jobs
        /\ isProcessing' = r.isProcessing
        /\ processingRef' = r.processingRef
        /\ calls' = RemoveAt(calls, i) \o r.started
        /\ effectPending' = (effectPending \/ r.setJobs)
        /\ retried' = retried \ picked(r)
  /\ UNCHANGED <<apiKeyReady, initCheckPending, now, nextId>>

\* With nothing awaited the recursion is unbounded and the engine ends it with a
\* RangeError.  Stack use is counted in processQueue frames, so the error is
\* raised inside the recursive call, before its try block:
\*   "entry"     at the call itself or at findIndex: the flag stays released
\*   "prologue"  at setIsProcessing or setJobs, after the flag was set again
\* A frame that got through those calls has room for the calls of its own try
\* and catch blocks.  The error leaves the async function as a rejected promise
\* and the frames below it return.
OverflowInCall == {"entry", "prologue"}

\* The finally block of the innermost frame the stack holds.
stackOverflow(i, site) ==
  /\ i \in DOMAIN calls
  /\ calls[i].pc = "finally"
  /\ ~calls[i].apiKeyReady
  /\ calls[i].depth = MaxStack
  /\ site \in OverflowInCall
  /\ processingRef' = (site = "prologue")
  /\ calls' = RemoveAt(calls, i)
  /\ UNCHANGED <<jobs, apiKeyReady, isProcessing, effectPending,
                 initCheckPending, now, nextId, retried>>

Next ==
  \/ Tick
  \/ \E env \in AiStudio : initCheck(env)
  \/ \E env \in AiStudio : handleConnect(env)
  \/ \E text \in Texts : handleAddJobs(text)
  \/ \E id \in 1..MaxJobs : retryJob(id)
  \/ \E id \in 1..MaxJobs : deleteJob(id)
  \/ \E confirmed \in BOOLEAN : clearAll(confirmed)
  \/ queueEffect
  \/ \E i \in DOMAIN calls, remote \in RemoteBehaviours : clientSettles(i, remote)
  \/ \E i \in DOMAIN calls : catchNotConnected(i)
  \/ \E i \in DOMAIN calls : finallyBlock(i)
  \/ \E i \in DOMAIN calls, site \in OverflowInCall : stackOverflow(i, site)

Spec == Init /\ [][Next]_vars

(* ------------------------------ fairness ------------------------------ *)

\* One step of an invocation that is not waiting for the client.
synchronousStep ==
  \/ \E i \in DOMAIN calls : catchNotConnected(i)
  \/ \E i \in DOMAIN calls : finallyBlock(i)
  \/ \E i \in DOMAIN calls, site \in OverflowInCall : stackOverflow(i, site)

\* Some awaited client call settles.
clientSettlesSome ==
  \E i \in DOMAIN calls, remote \in RemoteBehaviours : clientSettles(i, remote)

\* Every client call eventually resolves or rejects, React eventually runs a
\* pending effect (it waits only for the running callback to return), and a
\* callback that is running runs on.  The user and the host page owe nothing.
FairSpec ==
  /\ Spec
  /\ SF_vars(queueEffect)
  /\ WF_vars(clientSettlesSome)
  /\ WF_vars(synchronousStep)

(* ---------------- the A, B, C scenario of the order property ---------- *)

Prompts == { trim(line) : line \in { l \in Lines : Len(trim(l)) > 0 } }

\* Jobs A, B, C (ids 1, 2, 3) appended in that order at one time, all PENDING,
\* readiness true, the mount check settled; the queue effect has yet to run.
InitABC ==
  /\ \E pa \in Prompts, pb \in Prompts, pc \in Prompts, t \in 0..MaxTime :
       /\ jobs = << VideoJob(1, pa, t), VideoJob(2, pb, t), VideoJob(3, pc, t) >>
       /\ now = t
  /\ apiKeyReady = TRUE
  /\ isProcessing = FALSE
  /\ processingRef = FALSE
  /\ calls = <<>>
  /\ effectPending = TRUE
  /\ initCheckPending = FALSE
  /\ nextId = 4
  /\ retried = {}

\* A client that always succeeds.
clientSucceeds ==
  \E i \in DOMAIN calls : clientSettles(i, [kind |-> "video", text |-> <<>>])

\* The user does nothing more; the effect, the client and the loop run.
NextABC ==
  \/ Tick
  \/ queueEffect
  \/ clientSucceeds
  \/ \E i \in DOMAIN calls : finallyBlock(i)

FairSpecABC ==
  /\ InitABC /\ [][NextABC]_vars
  /\ SF_vars(queueEffect)
  /\ WF_vars(clientSucceeds)
  /\ WF_vars(\E i \in DOMAIN calls : finallyBlock(i))

(* ----------------------- batches of several lines --------------------- *)

\* Lines of a batch: empty, blank, with outer spaces, with inner spaces.
BatchLines == { <<>>, <<SP>>, <<SP, "b", SP>>, <<"c", SP, "d">> }

\* The texts of n lines.
RECURSIVE textsOfLen(_)
textsOfLen(n) ==
  IF n = 0 THEN { <<>> }
  ELSE { Append(text, line) : text \in textsOfLen(n - 1), line \in BatchLines }

\* Pasted text of up to MaxBatchLines lines.
BatchTexts == UNION { textsOfLen(n) : n \in 1..MaxBatchLines }

\* The host page answers and the user fills and empties the queue; processing
\* is left out.
NextBatch ==
  \/ Tick
  \/ \E env \in AiStudio : initCheck(env)
  \/ \E env \in AiStudio : handleConnect(env)
  \/ \E text \in BatchTexts : handleAddJobs(text)
  \/ \E id \in 1..MaxJobs : deleteJob(id)
  \/ \E confirmed \in BOOLEAN : clearAll(confirmed)

SpecBatch == Init /\ [][NextBatch]_vars

(* ------------------------- observing the queue ------------------------ *)

\* The jobs with this id in a store (none or one).
withId(js, id) == { i \in DOMAIN js : js[i].id = id }

\* The ids of the jobs with this status in a store.
idsWith(js, status) == { js[i].id : i \in { k \in DOMAIN js : js[k].status = status } }

\* The client calls in flight.
inFlight == { i \in DOMAIN calls : calls[i].pc = "await" }

\* This step calls generateVideoWithVeo: an invocation reaches its await, from
\* the effect or from a finally block.
clientCallStarts ==
  /\ Len(calls') > 0
  /\ calls'[Len(calls')].pc = "await"
  /\ \/ Len(calls') > Len(calls)
     \/ \E i \in DOMAIN calls : calls[i].pc = "finally"

\* The job that call is made for.
startedJob == jobOf(calls'[Len(calls')])

(* ------------------------------- claims ------------------------------- *)

\* C1: in every reachable state at most one job of the store has status
\* PROCESSING.
C1_AtMostOneProcessing ==
  Cardinality({ i \in DOMAIN jobs : jobs[i].status = PROCESSING }) <= 1

\* C1 witness: the busy flag is set, one job is PROCESSING and another job of
\* the store is PENDING.
C1_ProcessingBesidePending ==
  /\ processingRef
  /\ idsWith(jobs, PROCESSING) # {}
  /\ idsWith(jobs, PENDING) # {}

\* C2: at most one invocation of the video-generation client is in flight at
\* any time, whatever re-triggers processQueue in between.
C2_SingleFlight == Cardinality(inFlight) <= 1

\* C2 witness: a client call is in flight, another job is PENDING in the store,
\* and the effect that this change scheduled has run processQueue and returned.
C2_TriggeredWhileBusy ==
  /\ Cardinality(inFlight) = 1
  /\ idsWith(jobs, PENDING) # {}
  /\ ~effectPending

\* C3: a FAILED job stays FAILED until the user retries it (then PENDING) or
\* deletes it, and no client call is started for a job the store holds as
\* FAILED.
C3_FailedStaysFailed ==
  [][ /\ \A i \in DOMAIN jobs : \A k \in DOMAIN jobs' :
           (jobs[i].status = FAILED /\ jobs'[k].id = jobs[i].id)
             => jobs'[k].status \in {FAILED, PENDING}
      /\ clientCallStarts => startedJob.id \notin idsWith(jobs, FAILED) ]_vars

\* C4: a COMPLETED job never changes status again (it can only be removed), and
\* no client call is started for a job the store holds as COMPLETED.
C4_CompletedIsFinal ==
  [][ /\ \A i \in DOMAIN jobs : \A k \in DOMAIN jobs' :
           (jobs[i].status = COMPLETED /\ jobs'[k].id = jobs[i].id)
             => jobs'[k].status = COMPLETED
      /\ clientCallStarts => startedJob.id \notin idsWith(jobs, COMPLETED) ]_vars

\* C5: with A, B, C appended in that order, readiness true and a client that
\* always succeeds, B is not COMPLETED before A, C is not COMPLETED before B,
\* no two are PROCESSING together, and eventually all three are COMPLETED.
C5_CompletionOrder ==
  /\ [](2 \in idsWith(jobs, COMPLETED) => 1 \in idsWith(jobs, COMPLETED))
  /\ [](3 \in idsWith(jobs, COMPLETED) => 2 \in idsWith(jobs, COMPLETED))
  /\ [](Cardinality(idsWith(jobs, PROCESSING)) <= 1)
  /\ <>(idsWith(jobs, COMPLETED) = {1, 2, 3})

\* C6: under fairness, every job that is PENDING in the store eventually
\* leaves PENDING for PROCESSING, unless it is deleted.
C6_NoStarvation ==
  \A id \in 1..MaxJobs :
    (id \in idsWith(jobs, PENDING))
      ~> (id \in idsWith(jobs, PROCESSING) \/ withId(jobs, id) = {})

\* C7: when a job has FAILED while a later job of the store is PENDING, that
\* later job is subsequently picked (or deleted): a failure does not stop the
\* loop.
C7_LoopSurvivesFailure ==
  \A a \in 1..MaxJobs, b \in 1..MaxJobs :
    (/\ a \in idsWith(jobs, FAILED)
     /\ b \in idsWith(jobs, PENDING)
     /\ \E i \in withId(jobs, a), k \in withId(jobs, b) : i < k)
      ~> (b \in idsWith(jobs, PROCESSING) \/ withId(jobs, b) = {})

\* C8: for every job of the store, COMPLETED implies result present, error
\* absent and completedAt >= createdAt; FAILED implies error present and
\* result absent.
C8_TerminalFields ==
  \A i \in DOMAIN jobs :
    /\ jobs[i].status = COMPLETED =>
         /\ jobs[i].videoUrl # undefined /\ jobs[i].videoBlob # undefined
         /\ jobs[i].error = undefined
         /\ jobs[i].completedAt # undefined
         /\ jobs[i].completedAt[1] >= jobs[i].createdAt
    /\ jobs[i].status = FAILED =>
         /\ jobs[i].error # undefined
         /\ jobs[i].videoUrl = undefined /\ jobs[i].videoBlob = undefined

\* C9: processing triggered with readiness false and exactly one PENDING job
\* never calls the client, and once the job's failure is recorded the job is
\* FAILED with "API Key not connected" and stays so, the processor idle: no
\* invocation alive, the busy flag and the isProcessing indicator false.
C9_PreconditionFailure ==
  [][ \A i \in DOMAIN calls :
        (/\ ~calls[i].apiKeyReady
         /\ Cardinality(idsWith(calls[i].jobs, PENDING)) = 1)
        => /\ calls[i].pc # "await"
           /\ calls[i].pc = "finally" =>
                /\ calls' = <<>>
                /\ ~processingRef' /\ ~isProcessing'
                /\ \A k \in withId(jobs', jobOf(calls[i]).id) :
                     /\ jobs'[k].status = FAILED
                     /\ jobs'[k].error = Def(KeyNotConnected) ]_vars

\* C10: whenever a client call is started, apiKeyReady is true at that moment.
C10_ClientOnlyWhenReady == [][ clientCallStarts => apiKeyReady ]_vars

\* The remote failures whose message carries the session-invalid marker.
sessionInvalid ==
  { remote \in RemoteBehaviours :
      remote.kind = "sdkError" /\ includes(remote.text, NotFoundMarker) }

\* C11: when the remote operation fails with a message containing the
\* session-invalid marker, the job being processed becomes FAILED with that
\* message and apiKeyReady becomes false.
C11_SessionInvalidResetsReadiness ==
  [][ \A i \in DOMAIN calls : \A remote \in sessionInvalid :
        clientSettles(i, remote)
          => /\ ~apiKeyReady'
             /\ \A k \in withId(jobs', jobOf(calls[i]).id) :
                  /\ jobs'[k].status = FAILED
                  /\ jobs'[k].error = Def(remote.text) ]_vars

\* C12: when the client call of a job that was deleted while PROCESSING
\* resolves or rejects, the result or error write changes nothing: the store
\* still has no job with that id and every other job is as it was.
C12_WriteAfterDeleteIsNoOp ==
  [][ \A i \in DOMAIN calls : \A remote \in RemoteBehaviours :
        (clientSettles(i, remote) /\ withId(jobs, jobOf(calls[i]).id) = {})
          => jobs' = jobs ]_vars

\* C12 witness: the client call of a deleted job has settled, and the store
\* holds other jobs.
C12_SettledAfterDelete ==
  \E i \in DOMAIN calls :
    /\ calls[i].apiKeyReady
    /\ calls[i].pc = "finally"
    /\ withId(jobs, jobOf(calls[i]).id) = {}
    /\ Len(jobs) > 0

\* C13: while the store holds no PENDING job, a trigger of processQueue (the
\* queue effect, or the call at the end of the finally block) changes no job
\* and starts no client call.
C13_NoPendingNoWork ==
  [][ (/\ idsWith(jobs, PENDING) = {}
       /\ queueEffect \/ \E i \in DOMAIN calls : finallyBlock(i))
        => (jobs' = jobs /\ ~clientCallStarts) ]_vars

\* C14: processQueue triggered while processingRef.current is true changes no
\* job, neither the busy flag nor readiness nor the indicator, and starts no
\* client call, PENDING jobs or not.
C14_BusyTriggerIsNoOp ==
  [][ (processingRef /\ queueEffect)
        => /\ jobs' = jobs
           /\ processingRef' = processingRef
           /\ apiKeyReady' = apiKeyReady
           /\ isProcessing' = isProcessing
           /\ calls' = calls ]_vars

\* C14 witness: the effect has run processQueue with the busy flag set and a
\* PENDING job in the store.
C14_TriggeredWithFlagSet ==
  /\ processingRef
  /\ ~effectPending
  /\ \E i \in DOMAIN jobs : jobs[i].status = PENDING

\* C15: retryJob(id) on a FAILED job J sets J to PENDING with error undefined,
\* keeps J's id, prompt and createdAt and every other job, and J is then
\* eventually picked again by processQueue (or deleted), as a freshly added
\* PENDING job is.
C15_RetryLaw ==
  /\ [][ \A id \in 1..MaxJobs :
           retryJob(id)
             => /\ Len(jobs') = Len(jobs)
                /\ \A i \in DOMAIN jobs :
                     IF jobs[i].id = id
                     THEN /\ jobs'[i].status = PENDING
                          /\ jobs'[i].error = undefined
                          /\ jobs'[i].id = jobs[i].id
                          /\ jobs'[i].prompt = jobs[i].prompt
                          /\ jobs'[i].createdAt = jobs[i].createdAt
                     ELSE jobs'[i] = jobs[i] ]_vars
  /\ \A id \in 1..MaxJobs : (id \in retried) ~> (id \notin retried)

\* The lines of a text that are not empty after trimming.
nonEmptyLines(text) == { i \in DOMAIN text : trim(text[i]) # <<>> }

\* C16: handleAddJobs appends exactly one PENDING job per line that is not
\* empty after trimming, with the trimmed line as prompt, in line order, and
\* leaves the jobs already in the store as they are; a text without such a line
\* leaves the store unchanged.
C16_OneJobPerNonEmptyLine ==
  [][ \A text \in BatchTexts :
        handleAddJobs(text)
          => /\ Len(jobs') = Len(jobs) + Cardinality(nonEmptyLines(text))
             /\ \A k \in DOMAIN jobs : jobs'[k] = jobs[k]
             /\ \A i \in nonEmptyLines(text) :
                  LET k == Len(jobs)
                             + Cardinality({ j \in nonEmptyLines(text) : j <= i })
                  IN /\ jobs'[k].prompt = trim(text[i])
                     /\ jobs'[k].status = PENDING
             /\ nonEmptyLines(text) = {} => jobs' = jobs ]_vars

\* C16 witness: a batch of two lines with text has added two jobs at once, the
\* first with inner spaces kept, the second with its outer spaces removed.
C16_TwoJobsFromBatch ==
  /\ Len(jobs) = 2
  /\ jobs[1].prompt = <<"c", SP, "d">>
  /\ jobs[2].prompt = <<"b">>
  /\ jobs[1].id = 1 /\ jobs[2].id = 2
  /\ jobs[1].createdAt = now /\ jobs[2].createdAt = now

\* A step taken by the user: a click on one of the buttons.
userActs ==
  \/ \E env \in AiStudio : handleConnect(env)
  \/ \E text \in Texts : handleAddJobs(text)
  \/ \E id \in 1..MaxJobs : retryJob(id)
  \/ \E id \in 1..MaxJobs : deleteJob(id)
  \/ \E confirmed \in BOOLEAN : clearAll(confirmed)

\* Nothing left to do and nothing being done.
Idle ==
  /\ idsWith(jobs, PENDING) = {}
  /\ idsWith(jobs, PROCESSING) = {}
  /\ calls = <<>>
  /\ ~processingRef
  /\ ~isProcessing

\* C17: if the user's actions stop and every client call settles, the system
\* eventually reaches and stays in a state with no PENDING and no PROCESSING
\* job, no invocation alive, the busy flag false and isProcessing false.
C17_DrainsThenIdle == (<>[][~userActs]_vars) => <>[]Idle

\* C18: whenever a job of the store is moved to PROCESSING, it was PENDING in
\* the store at that moment and no job before it in the store was PENDING.
C18_FifoAdmission ==
  [][ \A i \in DOMAIN jobs : \A k \in DOMAIN jobs' :
        (/\ jobs'[k].id = jobs[i].id
         /\ jobs'[k].status = PROCESSING
         /\ jobs[i].status # PROCESSING)
          => /\ jobs[i].status = PENDING
             /\ \A m \in 1..(i - 1) : jobs[m].status # PENDING ]_vars

\* C19: for every job of the store, error is present only if the job is
\* FAILED, and videoUrl, videoBlob and completedAt only if it is COMPLETED.
C19_FieldsOnlyWithStatus ==
  \A i \in DOMAIN jobs :
    /\ jobs[i].error # undefined => jobs[i].status = FAILED
    /\ jobs[i].videoUrl # undefined => jobs[i].status = COMPLETED
    /\ jobs[i].videoBlob # undefined => jobs[i].status = COMPLETED
    /\ jobs[i].completedAt # undefined => jobs[i].status = COMPLETED

\* The message generateVideoWithVeo rejects with, for a remote behaviour that
\* makes it fail.
rejection(remote) == generateVideoWithVeo(<<>>, remote).message

\* The remote behaviours that make the client fail.
RemoteFailures ==
  { remote \in RemoteBehaviours : ~generateVideoWithVeo(<<>>, remote).ok }

\* C20 as stated: when the client fails with a message m, the job is FAILED
\* with error equal to m, for every m, the empty message included.
C20_ErrorStoredVerbatim ==
  [][ \A i \in DOMAIN calls : \A remote \in RemoteFailures :
        clientSettles(i, remote)
          => \A k \in withId(jobs', jobOf(calls[i]).id) :
               /\ jobs'[k].status = FAILED
               /\ jobs'[k].error = Def(rejection(remote)) ]_vars

\* C20 amended: when the client fails with a message m, the job is FAILED with
\* error equal to m if m is not empty, and "Generation failed" if it is.
C20_ErrorStoredOrFallback ==
  [][ \A i \in DOMAIN calls : \A remote \in RemoteFailures :
        clientSettles(i, remote)
          => \A k \in withId(jobs', jobOf(calls[i]).id) :
               /\ jobs'[k].status = FAILED
               /\ rejection(remote) # <<>>
                    => jobs'[k].error = Def(rejection(remote))
               /\ rejection(remote) = <<>>
                    => jobs'[k].error = Def(GenerationFailed) ]_vars

\* C20 witness: a client call has ended with an empty message and its job holds
\* the fallback text.
C20_FailedWithFallback ==
  \E i \in DOMAIN calls : \E k \in DOMAIN jobs :
    /\ calls[i].apiKeyReady
    /\ calls[i].pc = "finally"
    /\ jobs[k].id = jobOf(calls[i]).id
    /\ jobs[k].status = FAILED
    /\ jobs[k].error = Def(GenerationFailed)

\* The key-selection flow fails: no overlay, or openSelectKey rejects.
selectionFails(env) == ~env.present \/ env.selectFails

\* hasSelectedApiKey rejects.
recheckFails(env) == env.present /\ env.checkFails

\* The availability check after the flow answers that a key is selected.
keyConfirmed(env) == env.present /\ ~env.checkFails /\ env.hasKey

\* C21 as stated: when the key-selection flow fails, handleConnect leaves
\* apiKeyReady and the jobs as they are; when it returns, apiKeyReady is true
\* afterwards only if the availability check confirms a key.
C21_ConnectConfirmsKey ==
  [][ \A env \in AiStudio :
        handleConnect(env)
          => /\ selectionFails(env) => (apiKeyReady' = apiKeyReady /\ jobs' = jobs)
             /\ (~selectionFails(env) /\ apiKeyReady') => keyConfirmed(env) ]_vars

\* C21 amended: when the key-selection flow or the availability check fails,
\* handleConnect leaves apiKeyReady as it is; when both return, apiKeyReady is
\* true afterwards whatever the check answered; the jobs are never changed.
C21_ConnectAssumesKey ==
  [][ \A env \in AiStudio :
        handleConnect(env)
          => /\ jobs' = jobs
             /\ (selectionFails(env) \/ recheckFails(env))
                  => apiKeyReady' = apiKeyReady
             /\ (~selectionFails(env) /\ ~recheckFails(env)) => apiKeyReady' ]_vars

\* C21 witness: readiness is true while the mount check has not answered yet,
\* so it was set by handleConnect.
C21_ConnectedByUser == apiKeyReady /\ initCheckPending

\* C22: whenever a client call is started, the job it is made for is in the
\* store at that moment: no call is started for a job that deleteJob or
\* clearAll has removed.
C22_ClientOnlyForStoredJobs ==
  [][ clientCallStarts => withId(jobs, startedJob.id) # {} ]_vars

====
